---- MODULE Spec2Model ----
(***************************************************************************)
(* Model of rbatis src/crud.rs: the CRUDEnable value-map codec and the     *)
(* CRUD statement builders of Rbatis.                                      *)
(*                                                                         *)
(* SQL text is a sequence of tokens (words, single spaces, placeholders),  *)
(* so that string operations of the source (format!, push_str, pop,        *)
(* trim_start, trim_start_matches) act on what they act on in the source.  *)
(* A statement handed to exec_prepare / fetch_prepare / fetch_page is      *)
(* appended to the variable issued; the collaborator's answer arrives in   *)
(* a separate step (the .await of the source).                             *)
(***************************************************************************)
EXTENDS Integers, Sequences, FiniteSets, TLC

\* ------------------------------------------------------------------ bounds
MaxCols == 3
MaxBatch == 2
MaxIds == 2
MaxRows == 1
MaxItems == 3

\* ------------------------------------------------------------------ tokens
W(s) == [k |-> "w", v |-> s, n |-> 0]
SP == [k |-> "sp", v |-> " ", n |-> 0]
COMMA == W(",")
LP == W("(")
RP == W(")")

RECURSIVE Flatten(_)
Flatten(ss) == IF ss = <<>> THEN <<>> ELSE Head(ss) \o Flatten(Tail(ss))

\* String::pop : removes the last character, nothing on an empty string
Pop(s) == IF s = <<>> THEN <<>> ELSE SubSeq(s, 1, Len(s) - 1)

RECURSIVE TrimEndMatches(_, _)
TrimEndMatches(s, t) ==
    IF s # <<>> /\ s[Len(s)] = t THEN TrimEndMatches(Pop(s), t) ELSE s

RECURSIVE TrimStart(_)
TrimStart(s) == IF s # <<>> /\ Head(s) = SP THEN TrimStart(Tail(s)) ELSE s

StartsWith(s, p) == Len(s) >= Len(p) /\ SubSeq(s, 1, Len(p)) = p

RECURSIVE TrimStartMatches(_, _)
TrimStartMatches(s, p) ==
    IF StartsWith(s, p) THEN TrimStartMatches(SubSeq(s, Len(p) + 1, Len(s)), p)
    ELSE s

Placeholders(sql) == SelectSeq(sql, LAMBDA t : t.k = "ph")
Words(sql) == SelectSeq(sql, LAMBDA t : t.k # "sp")

\* ------------------------------------------------------------------ values
NullV == [t |-> "null", v |-> ""]
Str(s) == [t |-> "string", v |-> s]
Num(s) == [t |-> "number", v |-> s]
GoodDate == Str("2020-02-09 00:00:00")
BadDate == Str("not-a-date")
is_string(v) == v.t = "string"
is_null(v) == v.t = "null"

\* the columns of the entity type, in the order of the value map
KeyOrder == <<"create_time", "id", "name", "status">>

\* str::contains on the column names of the model
contains(k, sub) ==
    \/ sub = "time" /\ k \in {"create_time"}
    \/ sub = "date" /\ k \in {}

ValDom(k) ==
    IF k = "create_time" THEN {NullV, GoodDate, BadDate}
    ELSE IF k = "id" THEN {NullV, Str("12312")}
    ELSE IF k = "name" THEN {NullV, Str("abc")}
    ELSE {NullV, Num("1")}

\* value maps: ordered sequences of <<column, value>> with distinct columns
RECURSIVE MapsFrom(_)
MapsFrom(p) ==
    IF p > Len(KeyOrder) THEN {<<>>}
    ELSE LET rest == MapsFrom(p + 1)
         IN  rest \cup { <<[key |-> KeyOrder[p], val |-> v]>> \o m :
                           v \in ValDom(KeyOrder[p]), m \in rest }

ValueMaps == { m \in MapsFrom(1) : Len(m) <= MaxCols }

\* an entity either serializes to an object (its value map) or does not
NotObject == [object |-> FALSE, map |-> <<>>]
Entities == { [object |-> TRUE, map |-> m] : m \in ValueMaps } \cup {NotObject}

\* the entities the batch operations are called with: one that does not
\* serialize to an object, one without columns, with and without id, with a
\* null, with a date the dialect converts and one it does not convert
Col(k, v) == [key |-> k, val |-> v]
Obj(m) == [object |-> TRUE, map |-> m]
BatchEntities ==
    { NotObject,
      Obj(<<>>),
      Obj(<<Col("id", Str("12312"))>>),
      Obj(<<Col("status", Num("1"))>>),
      Obj(<<Col("create_time", GoodDate), Col("id", Str("12312"))>>),
      Obj(<<Col("create_time", NullV), Col("id", Str("12312"))>>),
      Obj(<<Col("create_time", BadDate), Col("id", Str("12312"))>>),
      Obj(<<Col("id", Str("12312")), Col("status", NullV)>>) }

HasKey(map, key) == \E j \in 1..Len(map) : map[j].key = key
Get(map, key) == map[CHOOSE j \in 1..Len(map) : map[j].key = key].val

SeqsUpTo(S, n) == UNION { [1..l -> S] : l \in 0..n }

IdValues == {"1", "2"}

\* ------------------------------------------------------------------ dialect
Drivers == {"Mysql", "Postgres"}
Unlinked == "None"

\* Rbatis::driver_type() : fails while the handle is not linked
driver_type(d) == [ok |-> d # Unlinked, db |-> d]

\* StmtConvert::stmt_convert : the placeholder of the index-th bound value
stmt_convert(db, index) ==
    IF db = "Postgres" THEN [k |-> "ph", v |-> "$", n |-> index + 1]
    ELSE [k |-> "ph", v |-> "?", n |-> 0]

\* Date::date_convert : (sql, value) of a temporal column, or an error
date_convert(db, v, index) ==
    IF v = BadDate THEN [ok |-> FALSE, sql |-> <<>>, value |-> v]
    ELSE IF db = "Postgres"
         THEN [ok |-> TRUE,
               sql |-> <<W("cast"), LP, stmt_convert(db, index), SP, W("as"),
                         SP, W("timestamp"), RP>>,
               value |-> Str("2020-02-09T00:00:00")]
         ELSE [ok |-> TRUE, sql |-> <<stmt_convert(db, index)>>, value |-> v]

\* ------------------------------------------------------------------ entity capability
table_name == W("biz_activity")

table_fields ==
    <<SP>> \o Pop(Flatten([j \in 1..Len(KeyOrder) |-> <<W(KeyOrder[j]), COMMA>>]))
           \o <<SP>>

\* make_field_value_map that takes what is not an object for an empty map
make_field_value_map_lenient(e) ==
    [ok |-> TRUE, err |-> "", map |-> IF e.object THEN e.map ELSE <<>>]

make_field_value_map(e) ==
    IF e.object THEN [ok |-> TRUE, err |-> "", map |-> e.map]
    ELSE [ok |-> FALSE, err |-> "SerializationFailure", map |-> <<>>]

make_fields(map) ==
    TrimEndMatches(Flatten([j \in 1..Len(map) |-> <<W(map[j].key), COMMA>>]), COMMA)

RECURSIVE make_sql_arg_loop(_, _, _, _, _, _)
make_sql_arg_loop(index, db, map, j, sql, arr) ==
    IF j > Len(map)
    THEN [ok |-> TRUE, err |-> "", sql |-> Pop(sql), args |-> arr, index |-> index]
    ELSE LET k == map[j].key
             v == map[j].val
         IN  IF (contains(k, "time") \/ contains(k, "date")) /\ is_string(v)
             THEN LET c == date_convert(db, v, index)
                  IN  IF ~c.ok
                      THEN [ok |-> FALSE, err |-> "DialectConversionFailure",
                            sql |-> <<>>, args |-> <<>>, index |-> index]
                      ELSE make_sql_arg_loop(index + 1, db, map, j + 1,
                                             sql \o c.sql \o <<COMMA>>,
                                             Append(arr, c.value))
             ELSE make_sql_arg_loop(index + 1, db, map, j + 1,
                                    sql \o <<stmt_convert(db, index), COMMA>>,
                                    Append(arr, v))

\* make_sql_arg that binds no argument for a null value
make_sql_arg_skip_null(index, db, map) ==
    LET r == make_sql_arg_loop(index, db, map, 1, <<>>, <<>>)
    IN  [r EXCEPT !.args = SelectSeq(@, LAMBDA v : ~is_null(v))]

make_sql_arg(index, db, map) == make_sql_arg_loop(index, db, map, 1, <<>>, <<>>)

\* ------------------------------------------------------------------ identifier extraction
\* Option<IdType> as returned by Id::get_id
None == [some |-> FALSE, v |-> ""]
Some(v) == [some |-> TRUE, v |-> v]

\* the elements of a Vec<C>, C: Id, by what get_id answers for them
IdItems == {[id |-> None]} \cup { [id |-> Some(v)] : v \in IdValues }

get_id(item) == item.id

RECURSIVE to_ids_loop(_, _, _)
to_ids_loop(self, j, v) ==
    IF j > Len(self) THEN v
    ELSE LET id == get_id(self[j])
         IN  IF id.some THEN to_ids_loop(self, j + 1, Append(v, id.v))
             ELSE to_ids_loop(self, j + 1, v)

\* to_ids that gives up at the first element without an identifier
RECURSIVE to_ids_loop_stop(_, _, _)
to_ids_loop_stop(self, j, v) ==
    IF j > Len(self) THEN v
    ELSE LET id == get_id(self[j])
         IN  IF id.some THEN to_ids_loop_stop(self, j + 1, Append(v, id.v))
             ELSE v

to_ids_stop_at_none(self) == to_ids_loop_stop(self, 1, <<>>)

to_ids(self) == to_ids_loop(self, 1, <<>>)

\* ------------------------------------------------------------------ predicate builder
\* Wrapper: a WHERE fragment (without the WHERE keyword) and its arguments
Wrapper_new(db) == [db |-> db, sql |-> <<>>, args |-> <<>>]

Wrapper_and(w) == [w EXCEPT !.sql = @ \o <<SP, W("AND"), SP>>]

Wrapper_or(w) == [w EXCEPT !.sql = @ \o <<SP, W("OR"), SP>>]

Wrapper_eq(w, column, v) ==
    [w EXCEPT !.sql = @ \o <<W(column), SP, W("="), SP,
                             stmt_convert(w.db, Len(w.args))>>,
              !.args = Append(@, v)]

Wrapper_in_array(w, column, ids) ==
    IF ids = <<>> THEN w
    ELSE [w EXCEPT
            !.sql = @ \o <<W(column), SP, W("IN"), SP, LP>>
                      \o Pop(Flatten([j \in 1..Len(ids) |->
                             <<stmt_convert(w.db, Len(w.args) + j - 1), COMMA>>]))
                      \o <<RP>>,
            !.args = @ \o [j \in 1..Len(ids) |-> Str(ids[j])]]

\* Wrapper::check : validation of the fragment; Ok(wrapper) or an error
Wrapper_check(w) == [ok |-> TRUE, err |-> "", w |-> w]

\* Wrapper::right_link_wrapper : self followed by arg, arg's numbered
\* placeholders moved behind the arguments self already has
Wrapper_right_link_wrapper(self, arg) ==
    [self EXCEPT
       !.sql = @ \o [j \in 1..Len(arg.sql) |->
                       IF arg.sql[j].k = "ph" /\ arg.sql[j].v = "$"
                       THEN [arg.sql[j] EXCEPT !.n = @ + Len(self.args)]
                       ELSE arg.sql[j]],
       !.args = @ \o arg.args]

\* ------------------------------------------------------------------ soft-delete policy
NoPlugin == [some |-> FALSE, column |-> "", deleted |-> "", un_deleted |-> ""]
DeleteFlagPlugin ==
    [some |-> TRUE, column |-> "delete_flag", deleted |-> "1", un_deleted |-> "0"]

\* str::split(",") of a field list
RECURSIVE Split(_, _)
Split(s, cur) ==
    IF s = <<>> THEN <<cur>>
    ELSE IF Head(s) = COMMA THEN <<cur>> \o Split(Tail(s), <<>>)
    ELSE Split(Tail(s), Append(cur, Head(s)))

\* LogicDelete::create_sql : the UPDATE that marks the rows deleted
create_sql(plugin, db, table, fields, sql_where) ==
    [ok |-> TRUE, err |-> "",
     sql |-> <<W("UPDATE"), SP, table, SP, W("SET"), SP, W(plugin.column), SP,
               W("="), SP, W(plugin.deleted)>> \o sql_where]

\* ------------------------------------------------------------------ outcomes of a builder
\* what a handler does up to its first suspension point: it returns an
\* error, returns a row count without a statement, or hands one statement
\* to the execution collaborator
Err(e) == [kind |-> "err", err |-> e, rows |-> 0, via |-> "", sql |-> <<>>, args |-> <<>>]
Ret(n) == [kind |-> "ret", err |-> "", rows |-> n, via |-> "", sql |-> <<>>, args |-> <<>>]
Stmt(via, sql, args) ==
    [kind |-> "stmt", err |-> "", rows |-> 0, via |-> via, sql |-> sql, args |-> args]

\* ------------------------------------------------------------------ statement builders
\* make_where_sql that leaves a leading connective where it is
make_where_sql_no_strip(arg) == <<SP, W("WHERE"), SP>> \o arg \o <<SP>>

\* make_where_sql that strips the OR connectives before the AND connectives
make_where_sql_or_first(arg) ==
    <<SP, W("WHERE"), SP>>
      \o TrimStartMatches(TrimStartMatches(TrimStart(arg), <<W("OR"), SP>>),
                          <<W("AND"), SP>>)
      \o <<SP>>

make_where_sql(arg) ==
    <<SP, W("WHERE"), SP>>
      \o TrimStartMatches(TrimStartMatches(TrimStart(arg), <<W("AND"), SP>>),
                          <<W("OR"), SP>>)
      \o <<SP>>

\* make_select_sql that puts the caller's predicate ahead of the policy's
make_select_sql_caller_first(plugin, w) ==
    IF plugin.some
    THEN LET where_sql == IF w.sql # <<>> THEN w.sql \o <<SP, W("AND"), SP>>
                          ELSE w.sql
         IN  <<W("SELECT"), SP>> \o table_fields \o <<SP, W("FROM"), SP, table_name,
               SP, W("WHERE"), SP>> \o where_sql \o <<W(plugin.column), SP, W("="), SP,
               W(plugin.un_deleted), SP>>
    ELSE LET where_sql == IF w.sql # <<>> THEN <<SP, W("WHERE"), SP>> \o w.sql
                          ELSE w.sql
         IN  <<W("SELECT"), SP>> \o table_fields \o <<SP, W("FROM"), SP, table_name,
               SP>> \o where_sql

make_select_sql(plugin, w) ==
    IF plugin.some
    THEN LET where_sql == IF w.sql # <<>> THEN <<SP, W("AND"), SP>> \o w.sql
                          ELSE w.sql
         IN  <<W("SELECT"), SP>> \o table_fields \o <<SP, W("FROM"), SP, table_name,
               SP, W("WHERE"), SP, W(plugin.column), SP, W("="), SP,
               W(plugin.un_deleted), SP>> \o where_sql
    ELSE LET where_sql == IF w.sql # <<>> THEN <<SP, W("WHERE"), SP>> \o w.sql
                          ELSE w.sql
         IN  <<W("SELECT"), SP>> \o table_fields \o <<SP, W("FROM"), SP, table_name,
               SP>> \o where_sql

save(d, entity) ==
    LET dt == driver_type(d) IN
    IF ~dt.ok THEN Err("DriverTypeFailure") ELSE
    LET m == make_field_value_map(entity) IN
    IF ~m.ok THEN Err(m.err) ELSE
    LET r == make_sql_arg(0, dt.db, m.map) IN
    IF ~r.ok THEN Err(r.err) ELSE
    Stmt("exec_prepare",
         <<W("INSERT"), SP, W("INTO"), SP, table_name, SP, LP>>
           \o make_fields(m.map) \o <<RP, SP, W("VALUES"), SP, LP>> \o r.sql \o <<RP>>,
         r.args)

RECURSIVE save_batch_loop(_, _, _, _, _, _, _)
save_batch_loop(d, args, j, value_arr, arg_arr, fields, field_index) ==
    IF j > Len(args)
    THEN Stmt("exec_prepare",
              <<W("INSERT"), SP, W("INTO"), SP, table_name, SP, LP>> \o fields
                \o <<RP, SP, W("VALUES"), SP>> \o Pop(value_arr),
              arg_arr)
    ELSE
    LET dt == driver_type(d) IN
    IF ~dt.ok THEN Err("DriverTypeFailure") ELSE
    LET m == make_field_value_map(args[j]) IN
    IF ~m.ok THEN Err(m.err) ELSE
    LET fields2 == IF fields = <<>> THEN make_fields(m.map) ELSE fields
        r == make_sql_arg(field_index, dt.db, m.map)
    IN
    IF ~r.ok THEN Err(r.err) ELSE
    save_batch_loop(d, args, j + 1, value_arr \o <<LP>> \o r.sql \o <<RP, COMMA>>,
                    arg_arr \o r.args, fields2, r.index)

\* save_batch whose placeholder index starts again at 0 in every row
RECURSIVE save_batch_loop_restart(_, _, _, _, _, _)
save_batch_loop_restart(d, args, j, value_arr, arg_arr, fields) ==
    IF j > Len(args)
    THEN Stmt("exec_prepare",
              <<W("INSERT"), SP, W("INTO"), SP, table_name, SP, LP>> \o fields
                \o <<RP, SP, W("VALUES"), SP>> \o Pop(value_arr),
              arg_arr)
    ELSE
    LET dt == driver_type(d) IN
    IF ~dt.ok THEN Err("DriverTypeFailure") ELSE
    LET m == make_field_value_map(args[j]) IN
    IF ~m.ok THEN Err(m.err) ELSE
    LET fields2 == IF fields = <<>> THEN make_fields(m.map) ELSE fields
        r == make_sql_arg(0, dt.db, m.map)
    IN
    IF ~r.ok THEN Err(r.err) ELSE
    save_batch_loop_restart(d, args, j + 1, value_arr \o <<LP>> \o r.sql \o <<RP, COMMA>>,
                            arg_arr \o r.args, fields2)

save_batch_restart_index(d, args) ==
    IF args = <<>> THEN Ret(0)
    ELSE save_batch_loop_restart(d, args, 1, <<>>, <<>>, <<>>)

\* save_batch without the test for an empty slice
save_batch_no_empty_check(d, args) == save_batch_loop(d, args, 1, <<>>, <<>>, <<>>, 0)

save_batch(d, args) ==
    IF args = <<>> THEN Ret(0)
    ELSE save_batch_loop(d, args, 1, <<>>, <<>>, <<>>, 0)

remove_by_wrapper(d, plugin, arg) ==
    LET where_sql == arg.sql IN
    IF plugin.some
    THEN LET dt == driver_type(d) IN
         IF ~dt.ok THEN Err("DriverTypeFailure") ELSE
         LET c == create_sql(plugin, dt.db, table_name, Split(table_fields, <<>>),
                             make_where_sql(where_sql))
         IN  IF ~c.ok THEN Err(c.err) ELSE Stmt("exec_prepare", c.sql, arg.args)
    ELSE Stmt("exec_prepare",
              <<W("DELETE"), SP, W("FROM"), SP, table_name, SP>>
                \o make_where_sql(where_sql),
              arg.args)

\* remove_by_id that does not ask for the soft-delete policy
remove_by_id_always_delete(d, plugin, id) ==
    Stmt("exec_prepare",
         <<W("DELETE"), SP, W("FROM"), SP, table_name, SP, W("WHERE"), SP,
           W("id"), SP, W("="), SP, W(id)>>,
         <<>>)

remove_by_id(d, plugin, id) ==
    IF plugin.some
    THEN LET dt == driver_type(d) IN
         IF ~dt.ok THEN Err("DriverTypeFailure") ELSE
         LET c == create_sql(plugin, dt.db, table_name, Split(table_fields, <<>>),
                             <<SP, W("WHERE"), SP, W("id"), SP, W("="), SP, W(id)>>)
         IN  IF ~c.ok THEN Err(c.err) ELSE Stmt("exec_prepare", c.sql, <<>>)
    ELSE Stmt("exec_prepare",
              <<W("DELETE"), SP, W("FROM"), SP, table_name, SP, W("WHERE"), SP,
                W("id"), SP, W("="), SP, W(id)>>,
              <<>>)

remove_batch_by_id(d, plugin, ids) ==
    IF ids = <<>> THEN Ret(0) ELSE
    LET dt == driver_type(d) IN
    IF ~dt.ok THEN Err("DriverTypeFailure") ELSE
    LET w == Wrapper_check(Wrapper_in_array(Wrapper_and(Wrapper_new(dt.db)), "id", ids)) IN
    IF ~w.ok THEN Err(w.err) ELSE
    remove_by_wrapper(d, plugin, w.w)

RECURSIVE update_sets_loop(_, _, _, _, _)
update_sets_loop(db, map, j, sets, args) ==
    IF j > Len(map) THEN [sets |-> Pop(sets), args |-> args]
    ELSE IF is_null(map[j].val) THEN update_sets_loop(db, map, j + 1, sets, args)
    ELSE IF map[j].key = "id" THEN update_sets_loop(db, map, j + 1, sets, args)
    ELSE update_sets_loop(db, map, j + 1,
                          sets \o <<SP, W(map[j].key), SP, W("="), SP,
                                    stmt_convert(db, Len(args)), COMMA>>,
                          Append(args, map[j].val))

\* the SET clause without the filter on null values
RECURSIVE update_sets_loop_keep_null(_, _, _, _, _)
update_sets_loop_keep_null(db, map, j, sets, args) ==
    IF j > Len(map) THEN [sets |-> Pop(sets), args |-> args]
    ELSE IF map[j].key = "id" THEN update_sets_loop_keep_null(db, map, j + 1, sets, args)
    ELSE update_sets_loop_keep_null(db, map, j + 1,
                          sets \o <<SP, W(map[j].key), SP, W("="), SP,
                                    stmt_convert(db, Len(args)), COMMA>>,
                          Append(args, map[j].val))

update_sets_keep_null(db, map) == update_sets_loop_keep_null(db, map, 1, <<>>, <<>>)

update_sets(db, map) == update_sets_loop(db, map, 1, <<>>, <<>>)

update_by_wrapper(d, arg, w) ==
    LET dt == driver_type(d) IN
    IF ~dt.ok THEN Err("DriverTypeFailure") ELSE
    LET m == make_field_value_map(arg) IN
    IF ~m.ok THEN Err(m.err) ELSE
    LET s == update_sets(dt.db, m.map)
        wrapper == [Wrapper_new(dt.db) EXCEPT
                      !.sql = <<W("UPDATE"), SP, table_name, SP, W("SET"), SP>> \o s.sets,
                      !.args = s.args]
    IN
    IF w.sql # <<>>
    THEN LET c == Wrapper_check(Wrapper_right_link_wrapper(
                      [wrapper EXCEPT !.sql = @ \o <<SP, W("WHERE"), SP>>], w))
         IN  IF ~c.ok THEN Err(c.err) ELSE Stmt("exec_prepare", c.w.sql, c.w.args)
    ELSE Stmt("exec_prepare", wrapper.sql, wrapper.args)

\* update_by_id that does not look for the id field
update_by_id_no_check(d, arg) ==
    LET dt == driver_type(d) IN
    IF ~dt.ok THEN Err("DriverTypeFailure") ELSE
    LET args == make_field_value_map(arg) IN
    IF ~args.ok THEN Err(args.err) ELSE
    update_by_wrapper(d, arg,
        IF HasKey(args.map, "id")
        THEN Wrapper_eq(Wrapper_new(dt.db), "id", Get(args.map, "id"))
        ELSE Wrapper_new(dt.db))

update_by_id(d, arg) ==
    LET dt == driver_type(d) IN
    IF ~dt.ok THEN Err("DriverTypeFailure") ELSE
    LET args == make_field_value_map(arg) IN
    IF ~args.ok THEN Err(args.err) ELSE
    IF ~HasKey(args.map, "id") THEN Err("MissingIdentifier") ELSE
    update_by_wrapper(d, arg, Wrapper_eq(Wrapper_new(dt.db), "id", Get(args.map, "id")))

fetch_by_wrapper(plugin, w) == Stmt("fetch_prepare", make_select_sql(plugin, w), w.args)

list_by_wrapper(plugin, w) == Stmt("fetch_prepare", make_select_sql(plugin, w), w.args)

fetch_by_id(d, plugin, id) ==
    LET dt == driver_type(d) IN
    IF ~dt.ok THEN Err("DriverTypeFailure") ELSE
    LET w == Wrapper_check(Wrapper_eq(Wrapper_new(dt.db), "id", Str(id))) IN
    IF ~w.ok THEN Err(w.err) ELSE fetch_by_wrapper(plugin, w.w)

list(d, plugin) ==
    LET dt == driver_type(d) IN
    IF ~dt.ok THEN Err("DriverTypeFailure") ELSE
    list_by_wrapper(plugin, Wrapper_new(dt.db))

list_by_ids(d, plugin, ids) ==
    LET dt == driver_type(d) IN
    IF ~dt.ok THEN Err("DriverTypeFailure") ELSE
    LET w == Wrapper_check(Wrapper_in_array(Wrapper_new(dt.db), "id", ids)) IN
    IF ~w.ok THEN Err(w.err) ELSE list_by_wrapper(plugin, w.w)

fetch_page_by_wrapper(plugin, w) == Stmt("fetch_page", make_select_sql(plugin, w), w.args)

\* ------------------------------------------------------------------ state
VARIABLES
    driver,        \* the dialect the handle is linked to, or Unlinked
    logic_plugin,  \* Rbatis::logic_plugin, the soft-delete policy or NoPlugin
    call,          \* the operation in progress (or last completed) and its input
    pc,            \* "idle", "await" (suspended in the collaborator), "done"
                   \* (the call has returned, the caller holds the result)
    issued,        \* statements handed to the execution collaborator by the call
    answered,      \* how many of them the collaborator has answered
    answers,       \* the collaborator's answers, in the order they arrived
    idx,           \* update_batch_by_id: position of the entity being updated
    updates,       \* update_batch_by_id: affected rows summed so far
    result,        \* what the call returned
    vec            \* to_ids: the Vec the call returned

vars == <<driver, logic_plugin, call, pc, issued, answered, answers, idx, updates,
          result, vec>>

NoCall ==
    [op |-> "", entities |-> <<>>, w |-> Wrapper_new("Mysql"), ids |-> <<>>,
     items |-> <<>>]
Pending == [ok |-> FALSE, err |-> "pending", rows |-> 0]
Ok(n) == [ok |-> TRUE, err |-> "", rows |-> n]
Failed(e) == [ok |-> FALSE, err |-> e, rows |-> 0]

Statement(o) == [via |-> o.via, sql |-> o.sql, args |-> o.args]

\* the dialect a caller builds its own predicates with
CallerDb == IF driver = Unlinked THEN "Mysql" ELSE driver

\* predicates a caller passes in
CallerWrappers ==
    LET n == Wrapper_new(CallerDb)
        byId == Wrapper_eq(n, "id", Str("1"))
    IN  { n,
          byId,
          Wrapper_eq(Wrapper_and(n), "id", Str("1")),
          Wrapper_eq(Wrapper_or(n), "status", Num("1")),
          Wrapper_eq(Wrapper_and(Wrapper_and(n)), "id", Str("1")),
          Wrapper_eq(Wrapper_and(Wrapper_or(n)), "id", Str("1")),
          Wrapper_eq(Wrapper_or(Wrapper_and(byId)), "status", Num("1")),
          Wrapper_in_array(n, "id", <<"1", "2">>),
          [byId EXCEPT !.sql = <<W("AND"), SP, W("AND"), SP>> \o @],
          [byId EXCEPT !.sql = <<W("AND"), SP, W("OR"), SP>> \o @] }

IdLists == SeqsUpTo(IdValues, MaxIds)
ItemLists == SeqsUpTo(IdItems, MaxItems)
Batches == SeqsUpTo(BatchEntities, MaxBatch)

Init ==
    /\ driver \in Drivers \cup {Unlinked}
    /\ logic_plugin \in {NoPlugin, DeleteFlagPlugin}
    /\ call = NoCall
    /\ pc = "idle"
    /\ issued = <<>>
    /\ answered = 0
    /\ answers = <<>>
    /\ idx = 0
    /\ updates = 0
    /\ result = Pending
    /\ vec = <<>>

\* a handler runs from its entry to its first suspension point
Start(c, o) ==
    /\ pc = "idle"
    /\ call' = c
    /\ answered' = 0
    /\ answers' = <<>>
    /\ idx' = 0
    /\ updates' = 0
    /\ vec' = <<>>
    /\ IF o.kind = "stmt"
       THEN /\ issued' = <<Statement(o)>>
            /\ pc' = "await"
            /\ result' = Pending
       ELSE /\ issued' = <<>>
            /\ pc' = "done"
            /\ result' = IF o.kind = "ret" THEN Ok(o.rows) ELSE Failed(o.err)
    /\ UNCHANGED <<driver, logic_plugin>>

Op(name) == [NoCall EXCEPT !.op = name]

Call_save ==
    \E e \in Entities :
        Start([Op("save") EXCEPT !.entities = <<e>>], save(driver, e))

Call_save_batch ==
    \E es \in Batches :
        Start([Op("save_batch") EXCEPT !.entities = es], save_batch(driver, es))

Call_remove_by_wrapper ==
    \E w \in CallerWrappers :
        Start([Op("remove_by_wrapper") EXCEPT !.w = w],
              remove_by_wrapper(driver, logic_plugin, w))

Call_remove_by_id ==
    \E id \in IdValues :
        Start([Op("remove_by_id") EXCEPT !.ids = <<id>>],
              remove_by_id(driver, logic_plugin, id))

Call_remove_batch_by_id ==
    \E ids \in IdLists :
        Start([Op("remove_batch_by_id") EXCEPT !.ids = ids],
              remove_batch_by_id(driver, logic_plugin, ids))

Call_update_by_wrapper ==
    \E e \in Entities, w \in CallerWrappers :
        Start([Op("update_by_wrapper") EXCEPT !.entities = <<e>>, !.w = w],
              update_by_wrapper(driver, e, w))

Call_update_by_id ==
    \E e \in Entities :
        Start([Op("update_by_id") EXCEPT !.entities = <<e>>], update_by_id(driver, e))

Call_fetch_by_wrapper ==
    \E w \in CallerWrappers :
        Start([Op("fetch_by_wrapper") EXCEPT !.w = w], fetch_by_wrapper(logic_plugin, w))

Call_fetch_by_id ==
    \E id \in IdValues :
        Start([Op("fetch_by_id") EXCEPT !.ids = <<id>>],
              fetch_by_id(driver, logic_plugin, id))

Call_list == Start(Op("list"), list(driver, logic_plugin))

Call_list_by_wrapper ==
    \E w \in CallerWrappers :
        Start([Op("list_by_wrapper") EXCEPT !.w = w], list_by_wrapper(logic_plugin, w))

Call_list_by_ids ==
    \E ids \in IdLists :
        Start([Op("list_by_ids") EXCEPT !.ids = ids],
              list_by_ids(driver, logic_plugin, ids))

Call_fetch_page_by_wrapper ==
    \E w \in CallerWrappers :
        Start([Op("fetch_page_by_wrapper") EXCEPT !.w = w],
              fetch_page_by_wrapper(logic_plugin, w))

\* Ids::to_ids : no suspension point, no statement, the Vec is the result
Call_to_ids ==
    \E items \in ItemLists :
        /\ pc = "idle"
        /\ call' = [Op("to_ids") EXCEPT !.items = items]
        /\ vec' = to_ids(items)
        /\ pc' = "done"
        /\ result' = Ok(0)
        /\ issued' = <<>>
        /\ answered' = 0
        /\ answers' = <<>>
        /\ idx' = 0
        /\ updates' = 0
        /\ UNCHANGED <<driver, logic_plugin>>

\* update_batch_by_id, from the entity at position j on, up to the next
\* suspension point: the loop ends, update_by_id fails, or update_by_id
\* hands its statement over
update_batch_by_id_from(j, sum) ==
    IF j > Len(call'.entities)
    THEN /\ pc' = "done"
         /\ result' = Ok(sum)
         /\ issued' = issued
         /\ idx' = j
    ELSE LET o == update_by_id(driver, call'.entities[j])
         IN  /\ idx' = j
             /\ IF o.kind = "stmt"
                THEN /\ issued' = Append(issued, Statement(o))
                     /\ pc' = "await"
                     /\ result' = Pending
                ELSE /\ issued' = issued
                     /\ pc' = "done"
                     /\ result' = Failed(o.err)

Call_update_batch_by_id ==
    \E es \in Batches :
        /\ pc = "idle"
        /\ call' = [Op("update_batch_by_id") EXCEPT !.entities = es]
        /\ answered' = 0
        /\ answers' = <<>>
        /\ updates' = 0
        /\ vec' = <<>>
        /\ LET o == IF es = <<>> THEN Ret(0) ELSE update_by_id(driver, es[1])
           IN  /\ idx' = IF es = <<>> THEN 0 ELSE 1
               /\ IF o.kind = "stmt"
                  THEN /\ issued' = <<Statement(o)>>
                       /\ pc' = "await"
                       /\ result' = Pending
                  ELSE /\ issued' = <<>>
                       /\ pc' = "done"
                       /\ result' = IF o.kind = "ret" THEN Ok(o.rows) ELSE Failed(o.err)
        /\ UNCHANGED <<driver, logic_plugin>>

ExecResults == { Ok(n) : n \in 0..MaxRows } \cup {Failed("ExecutionFailure")}

\* the collaborator answers the statement of a single-statement operation
ExecReturn ==
    /\ pc = "await"
    /\ call.op # "update_batch_by_id"
    /\ \E r \in ExecResults :
        /\ result' = r
        /\ pc' = "done"
        /\ answered' = answered + 1
        /\ answers' = Append(answers, r)
    /\ UNCHANGED <<driver, logic_plugin, call, issued, idx, updates, vec>>

\* update_batch_by_id that keeps the rows of the last update, not the sum
UpdateBatchResume_last_rows ==
    /\ pc = "await"
    /\ call.op = "update_batch_by_id"
    /\ answered' = answered + 1
    /\ call' = call
    /\ \E r \in ExecResults :
        /\ answers' = Append(answers, r)
        /\ IF r.ok
           THEN /\ updates' = r.rows
                /\ update_batch_by_id_from(idx + 1, r.rows)
           ELSE /\ result' = r
                /\ pc' = "done"
                /\ UNCHANGED <<issued, idx, updates>>
    /\ UNCHANGED <<driver, logic_plugin, vec>>

\* the collaborator answers the statement of the entity at idx; on success
\* update_batch_by_id adds the rows and goes on with the next entity
UpdateBatchResume ==
    /\ pc = "await"
    /\ call.op = "update_batch_by_id"
    /\ answered' = answered + 1
    /\ call' = call
    /\ \E r \in ExecResults :
        /\ answers' = Append(answers, r)
        /\ IF r.ok
           THEN /\ updates' = updates + r.rows
                /\ update_batch_by_id_from(idx + 1, updates + r.rows)
           ELSE /\ result' = r
                /\ pc' = "done"
                /\ UNCHANGED <<issued, idx, updates>>
    /\ UNCHANGED <<driver, logic_plugin, vec>>

\* the caller takes the result; the handle is free for the next call
Return ==
    /\ pc = "done"
    /\ pc' = "idle"
    /\ call' = NoCall
    /\ issued' = <<>>
    /\ answered' = 0
    /\ answers' = <<>>
    /\ idx' = 0
    /\ updates' = 0
    /\ result' = Pending
    /\ vec' = <<>>
    /\ UNCHANGED <<driver, logic_plugin>>

Next ==
    \/ Call_save
    \/ Call_save_batch
    \/ Call_remove_by_wrapper
    \/ Call_remove_by_id
    \/ Call_remove_batch_by_id
    \/ Call_update_by_wrapper
    \/ Call_update_by_id
    \/ Call_update_batch_by_id
    \/ Call_fetch_by_wrapper
    \/ Call_fetch_by_id
    \/ Call_list
    \/ Call_list_by_wrapper
    \/ Call_list_by_ids
    \/ Call_fetch_page_by_wrapper
    \/ ExecReturn
    \/ UpdateBatchResume
    \/ Call_to_ids
    \/ Return

Spec == Init /\ [][Next]_vars

TypeOK ==
    /\ pc \in {"idle", "await", "done"}
    /\ answered \in 0..Len(issued)
    /\ answered = Len(answers)
    /\ pc = "await" => answered = Len(issued) - 1 /\ result = Pending
    /\ pc = "done" => answered = Len(issued) /\ result # Pending

\* ------------------------------------------------------------------ reading a statement
Pos(sql, tok) ==
    IF \E j \in 1..Len(sql) : sql[j] = tok
    THEN CHOOSE j \in 1..Len(sql) : sql[j] = tok /\ \A i \in 1..(j - 1) : sql[i] # tok
    ELSE 0
Has(sql, tok) == Pos(sql, tok) # 0
Before(sql, tok) == IF Has(sql, tok) THEN SubSeq(sql, 1, Pos(sql, tok) - 1) ELSE sql
After(sql, tok) == IF Has(sql, tok) THEN SubSeq(sql, Pos(sql, tok) + 1, Len(sql)) ELSE <<>>
Count(sql, tok) == Len(SelectSeq(sql, LAMBDA t : t = tok))

\* the comma-separated pieces of a text, commas inside parentheses not counted
RECURSIVE SplitTop(_, _, _)
SplitTop(s, depth, cur) ==
    IF s = <<>> THEN <<cur>>
    ELSE IF Head(s) = COMMA /\ depth = 0 THEN <<cur>> \o SplitTop(Tail(s), 0, <<>>)
    ELSE SplitTop(Tail(s),
                  IF Head(s) = LP THEN depth + 1
                  ELSE IF Head(s) = RP THEN depth - 1 ELSE depth,
                  Append(cur, Head(s)))

\* the column names of INSERT INTO t (c1,c2,...)
InsertColumns(sql) ==
    SelectSeq(Before(After(sql, LP), RP), LAMBDA t : t # COMMA)

\* the value groups of ... VALUES (..),(..)
ValueGroups(sql) == SplitTop(TrimStart(After(sql, W("VALUES"))), 0, <<>>)

\* the assignments of UPDATE t SET c1 = p1, c2 = p2 [WHERE ...]
SetClause(sql) == Words(Before(After(sql, W("SET")), W("WHERE")))
SetColumns(sql) ==
    LET c == SetClause(sql)
    IN  [j \in 1..Len(SelectSeq(c, LAMBDA t : t = W("="))) |-> c[4 * j - 3]]

IsTemporal(col) == (contains(col.key, "time") \/ contains(col.key, "date")) /\ is_string(col.val)

\* the argument the dialect binds for a column of an INSERT at a given index
BoundValue(col, index) ==
    IF IsTemporal(col) THEN date_convert(driver, col.val, index).value ELSE col.val

\* the dialect cannot convert one of the temporal columns
DateFails(map) ==
    \E j \in 1..Len(map) : IsTemporal(map[j]) /\ ~date_convert(driver, map[j].val, 0).ok

Keys(map) == [j \in 1..Len(map) |-> W(map[j].key)]

BuilderErrors ==
    {"DriverTypeFailure", "SerializationFailure", "DialectConversionFailure",
     "MissingIdentifier"}

Called(op) == call.op = op /\ pc # "idle"

\* ------------------------------------------------------------------ C1
\* C1: save of an entity whose value map has k >= 1 columns (on a linked
\* handle whose dialect converts the entity's dates) hands exactly one
\* INSERT to exec_prepare; it names the k columns in map order, has k
\* placeholders, the placeholder of index i-1 at position i, and k
\* arguments, the i-th being the (date-converted) value of column i.
C1_SaveAligned ==
    \A e \in {call.entities[j] : j \in 1..Len(call.entities)} :
        (Called("save") /\ e.object /\ Len(e.map) >= 1
            /\ driver # Unlinked /\ ~DateFails(e.map))
        => /\ Len(issued) = 1
           /\ issued[1].via = "exec_prepare"
           /\ SubSeq(Words(issued[1].sql), 1, 3) = <<W("INSERT"), W("INTO"), table_name>>
           /\ Count(issued[1].sql, W("INSERT")) = 1
           /\ InsertColumns(issued[1].sql) = Keys(e.map)
           /\ Len(Placeholders(issued[1].sql)) = Len(e.map)
           /\ Len(issued[1].args) = Len(e.map)
           /\ \A i \in 1..Len(e.map) :
                /\ Placeholders(issued[1].sql)[i] = stmt_convert(driver, i - 1)
                /\ issued[1].args[i] = BoundValue(e.map[i], i - 1)

C1_Witness ==
    /\ Called("save") /\ pc = "await" /\ driver = "Postgres"
    /\ Len(call.entities[1].map) = 2
    /\ IsTemporal(call.entities[1].map[1])
    /\ is_null(call.entities[1].map[2].val)
    /\ Len(issued) = 1 /\ Len(issued[1].args) = 2

\* ------------------------------------------------------------------ C2
\* C2: save_batch of n >= 1 entities with the same k >= 1 columns (on a
\* linked handle whose dialect converts their dates) hands exactly one
\* INSERT to exec_prepare, with n value groups of k placeholders each, the
\* placeholder of index i-1 at position i over all groups (0..n*k-1, none
\* reused), and the rows' arguments concatenated in input order.
C2_SaveBatchAligned ==
    LET es == call.entities
        n == Len(es)
        k == Len(es[1].map)
    IN  (Called("save_batch") /\ n >= 1 /\ driver # Unlinked
            /\ \A j \in 1..n : es[j].object /\ Keys(es[j].map) = Keys(es[1].map)
                                 /\ ~DateFails(es[j].map)
            /\ k >= 1)
        => /\ Len(issued) = 1
           /\ issued[1].via = "exec_prepare"
           /\ SubSeq(Words(issued[1].sql), 1, 3) = <<W("INSERT"), W("INTO"), table_name>>
           /\ Count(issued[1].sql, W("INSERT")) = 1
           /\ InsertColumns(issued[1].sql) = Keys(es[1].map)
           /\ Len(ValueGroups(issued[1].sql)) = n
           /\ \A g \in 1..n :
                LET grp == ValueGroups(issued[1].sql)[g]
                IN  /\ Head(grp) = LP /\ grp[Len(grp)] = RP
                    /\ Len(Placeholders(grp)) = k
           /\ Len(Placeholders(issued[1].sql)) = n * k
           /\ Len(issued[1].args) = n * k
           /\ \A i \in 1..(n * k) :
                /\ Placeholders(issued[1].sql)[i] = stmt_convert(driver, i - 1)
                /\ issued[1].args[i] =
                     BoundValue(es[((i - 1) \div k) + 1].map[((i - 1) % k) + 1], i - 1)

C2_Witness ==
    /\ Called("save_batch") /\ pc = "await" /\ driver = "Postgres"
    /\ Len(call.entities) = 2
    /\ call.entities[1] # call.entities[2]
    /\ Keys(call.entities[1].map) = Keys(call.entities[2].map)
    /\ Len(call.entities[1].map) = 2
    /\ Len(issued) = 1 /\ Len(issued[1].args) = 4
    /\ Placeholders(issued[1].sql)[4].n = 4

\* ------------------------------------------------------------------ C3
\* C3: the SET clause of the statement update_by_wrapper builds (directly
\* or on behalf of update_by_id) names neither the column id nor a column
\* whose value is null; every other column of the value map is assigned
\* exactly once, in map order, and its value is the aligned argument.
Kept(map) == SelectSeq(map, LAMBDA col : ~is_null(col.val) /\ col.key # "id")

C3_UpdateSetClause ==
    \A e \in {call.entities[j] : j \in 1..Len(call.entities)} :
        ((Called("update_by_wrapper") \/ Called("update_by_id"))
            /\ e.object /\ driver # Unlinked
            /\ (Called("update_by_id") => HasKey(e.map, "id")))
        => /\ Len(issued) = 1
           /\ issued[1].via = "exec_prepare"
           /\ SubSeq(Words(issued[1].sql), 1, 3) = <<W("UPDATE"), table_name, W("SET")>>
           /\ SetColumns(issued[1].sql) = Keys(Kept(e.map))
           /\ \A i \in 1..Len(SetColumns(issued[1].sql)) :
                /\ SetColumns(issued[1].sql)[i] # W("id")
                /\ \A j \in 1..Len(e.map) :
                     W(e.map[j].key) = SetColumns(issued[1].sql)[i]
                        => ~is_null(e.map[j].val)
           /\ Len(Placeholders(SetClause(issued[1].sql))) = Len(Kept(e.map))
           /\ Len(issued[1].args) >= Len(Kept(e.map))
           /\ \A i \in 1..Len(Kept(e.map)) :
                /\ Placeholders(SetClause(issued[1].sql))[i] = stmt_convert(driver, i - 1)
                /\ issued[1].args[i] = Kept(e.map)[i].val

C3_Witness ==
    /\ Called("update_by_wrapper") /\ pc = "await" /\ driver = "Postgres"
    /\ call.w.sql # <<>>
    /\ Len(call.entities[1].map) = 3
    /\ HasKey(call.entities[1].map, "id")
    /\ is_null(call.entities[1].map[1].val)
    /\ Len(Kept(call.entities[1].map)) = 1
    /\ Len(issued) = 1 /\ Len(issued[1].args) = 2

\* ------------------------------------------------------------------ C4
\* C4: with a soft-delete policy every statement of remove_by_id,
\* remove_by_wrapper and remove_batch_by_id (non-empty ids) is the policy's
\* UPDATE <table> SET <flag column> ... and contains no DELETE; without a
\* policy it is DELETE FROM <table> ... and contains no UPDATE.  On a linked
\* handle each of them hands over exactly one statement.
RemoveOps == {"remove_by_id", "remove_by_wrapper", "remove_batch_by_id"}

C4_RemoveFollowsPolicy ==
    (call.op \in RemoveOps /\ pc # "idle"
        /\ ~(call.op = "remove_batch_by_id" /\ call.ids = <<>>))
    => /\ driver # Unlinked => Len(issued) = 1
       /\ \A j \in 1..Len(issued) :
            /\ issued[j].via = "exec_prepare"
            /\ IF logic_plugin.some
               THEN /\ SubSeq(Words(issued[j].sql), 1, 4) =
                         <<W("UPDATE"), table_name, W("SET"), W(logic_plugin.column)>>
                    /\ ~Has(issued[j].sql, W("DELETE"))
               ELSE /\ SubSeq(Words(issued[j].sql), 1, 3) =
                         <<W("DELETE"), W("FROM"), table_name>>
                    /\ ~Has(issued[j].sql, W("UPDATE"))

C4_Witness ==
    /\ Called("remove_by_id") /\ pc = "await" /\ logic_plugin.some
    /\ Len(issued) = 1
    /\ Head(issued[1].sql) = W("UPDATE")

\* ------------------------------------------------------------------ C5
\* C5: with a soft-delete policy the SELECT of fetch_by_wrapper, fetch_by_id,
\* list, list_by_wrapper, list_by_ids and fetch_page_by_wrapper has exactly
\* one WHERE, followed first by <flag column> = <not deleted> and then, if
\* the caller's predicate is not empty, by AND and that predicate; without a
\* policy it has a WHERE iff the caller's predicate is not empty, and the
\* predicate is all that follows it.  The arguments are the predicate's.
SelectOps ==
    {"fetch_by_wrapper", "fetch_by_id", "list", "list_by_wrapper", "list_by_ids",
     "fetch_page_by_wrapper"}

\* the predicate the SELECT of the current call is built for
SelectPredicate ==
    IF call.op = "fetch_by_id" THEN Wrapper_eq(Wrapper_new(driver), "id", Str(call.ids[1]))
    ELSE IF call.op = "list" THEN Wrapper_new(driver)
    ELSE IF call.op = "list_by_ids" THEN Wrapper_in_array(Wrapper_new(driver), "id", call.ids)
    ELSE call.w

C5_SelectFollowsPolicy ==
    (call.op \in SelectOps /\ pc # "idle")
    => /\ driver # Unlinked => Len(issued) = 1
       /\ \A j \in 1..Len(issued) :
            LET sql == issued[j].sql
                p == SelectPredicate
            IN  /\ issued[j].via = IF call.op = "fetch_page_by_wrapper"
                                   THEN "fetch_page" ELSE "fetch_prepare"
                /\ Head(sql) = W("SELECT")
                /\ issued[j].args = p.args
                /\ IF logic_plugin.some
                   THEN /\ Count(sql, W("WHERE")) = 1
                        /\ SubSeq(Words(After(sql, W("WHERE"))), 1, 3) =
                             <<W(logic_plugin.column), W("="), W(logic_plugin.un_deleted)>>
                        /\ IF p.sql = <<>>
                           THEN Len(Words(After(sql, W("WHERE")))) = 3
                           ELSE /\ Words(After(sql, W("WHERE")))[4] = W("AND")
                                /\ Words(After(sql, W("WHERE"))) =
                                     <<W(logic_plugin.column), W("="),
                                       W(logic_plugin.un_deleted), W("AND")>> \o Words(p.sql)
                                /\ SubSeq(sql, Len(sql) - Len(p.sql) + 1, Len(sql)) = p.sql
                   ELSE /\ Has(sql, W("WHERE")) <=> p.sql # <<>>
                        /\ p.sql # <<>> => After(sql, W("WHERE")) = <<SP>> \o p.sql

C5_Witness ==
    /\ Called("list_by_wrapper") /\ pc = "await" /\ logic_plugin.some
    /\ call.w.sql # <<>>
    /\ Len(issued) = 1
    /\ Has(issued[1].sql, W(logic_plugin.column))

\* ------------------------------------------------------------------ C6
\* C6: update_by_id of an entity whose value map has no id field returns
\* the missing-identifier error and hands no statement over.
C6_UpdateByIdNeedsId ==
    \A e \in {call.entities[j] : j \in 1..Len(call.entities)} :
        (Called("update_by_id") /\ driver # Unlinked /\ e.object /\ ~HasKey(e.map, "id"))
        => /\ pc = "done"
           /\ result = Failed("MissingIdentifier")
           /\ issued = <<>>

C6_Witness ==
    /\ Called("update_by_id") /\ pc = "done"
    /\ call.entities[1].object
    /\ Len(call.entities[1].map) >= 1
    /\ ~HasKey(call.entities[1].map, "id")
    /\ result = Failed("MissingIdentifier")

\* ------------------------------------------------------------------ C7
\* C7: save, and save_batch, of an entity whose value map has no field
\* returns an error and hands no INSERT to the execution collaborator.
C7_EmptyEntityIsError ==
    ((Called("save") \/ Called("save_batch"))
        /\ \E j \in 1..Len(call.entities) :
              call.entities[j].object /\ call.entities[j].map = <<>>)
    => /\ pc = "done"
       /\ ~result.ok
       /\ issued = <<>>

\* ------------------------------------------------------------------ C8
\* the entity makes the operation fail before the collaborator is involved
EntityFails(op, e) ==
    \/ ~e.object
    \/ op \in {"save", "save_batch"} /\ DateFails(e.map)
    \/ op \in {"update_by_id", "update_batch_by_id"} /\ ~HasKey(e.map, "id")

EntityOps ==
    {"save", "save_batch", "update_by_wrapper", "update_by_id", "update_batch_by_id"}

\* C8 as stated: a call that returned a builder-local error (serialization
\* failure, missing identifier, dialect conversion failure, no dialect) has
\* handed no statement to the execution collaborator.
C8_FailFast ==
    (pc = "done" /\ result.err \in BuilderErrors) => issued = <<>>

\* C8 as amended: a builder-local error is detected before the statement it
\* concerns is handed over.  A call of any operation but update_batch_by_id
\* that returns such an error has handed nothing over, and hands nothing
\* over if one of its entities fails; update_batch_by_id returning such an
\* error for the entity at position idx has handed over the statements of
\* the idx-1 entities before it, all answered, and never the statement of
\* an entity that fails.
C8_FailBeforeOwnStatement ==
    /\ (pc = "done" /\ result.err \in BuilderErrors /\ call.op # "update_batch_by_id")
          => issued = <<>>
    /\ (pc = "done" /\ result.err \in BuilderErrors /\ call.op = "update_batch_by_id")
          => /\ idx \in 1..Len(call.entities)
             /\ Len(issued) = idx - 1
             /\ answered = idx - 1
             /\ driver = Unlinked \/ EntityFails(call.op, call.entities[idx])
             /\ \A j \in 1..(idx - 1) : ~EntityFails(call.op, call.entities[j])
    /\ (call.op \in EntityOps /\ pc # "idle")
          => \A j \in 1..Len(call.entities) :
                (driver = Unlinked \/ EntityFails(call.op, call.entities[j]))
                   => IF call.op = "update_batch_by_id"
                      THEN Len(issued) < j
                      ELSE issued = <<>> /\ pc = "done" /\ result.err \in BuilderErrors

C8_Witness ==
    /\ Called("update_batch_by_id") /\ pc = "done"
    /\ result = Failed("MissingIdentifier")
    /\ idx = 2
    /\ Len(issued) = 1 /\ answered = 1

\* ------------------------------------------------------------------ C9
\* C9: save_batch, remove_batch_by_id and update_batch_by_id called with an
\* empty input return Ok(0) and hand no statement over.
C9_EmptyBatchIsZero ==
    (\/ Called("save_batch") /\ call.entities = <<>>
     \/ Called("update_batch_by_id") /\ call.entities = <<>>
     \/ Called("remove_batch_by_id") /\ call.ids = <<>>)
    => /\ pc = "done"
       /\ result = Ok(0)
       /\ issued = <<>>
       /\ answered = 0

C9_Witness ==
    /\ Called("save_batch") /\ call.entities = <<>>
    /\ pc = "done" /\ result = Ok(0) /\ issued = <<>>

\* ------------------------------------------------------------------ C10
\* C10: remove_batch_by_id of a non-empty id list hands over exactly the
\* statement and arguments remove_by_wrapper hands over for the predicate
\* id IN (...) over these ids: one placeholder per id, the ids as arguments
\* in input order; without a policy DELETE FROM <table> WHERE id IN (p,..,p).
InPredicate(ids) == Wrapper_in_array(Wrapper_new(driver), "id", ids)

C10_RemoveBatchIsRemoveByWrapper ==
    (Called("remove_batch_by_id") /\ call.ids # <<>> /\ driver # Unlinked)
    => LET o == remove_by_wrapper(driver, logic_plugin, InPredicate(call.ids))
           n == Len(call.ids)
       IN  /\ Len(issued) = 1
           /\ o.kind = "stmt"
           /\ issued[1] = Statement(o)
           /\ Len(Placeholders(issued[1].sql)) = n
           /\ \A j \in 1..n : Placeholders(issued[1].sql)[j] = stmt_convert(driver, j - 1)
           /\ issued[1].args = [j \in 1..n |-> Str(call.ids[j])]
           /\ ~logic_plugin.some =>
                Words(issued[1].sql) =
                    <<W("DELETE"), W("FROM"), table_name, W("WHERE"), W("id"), W("IN"), LP>>
                      \o Pop(Flatten([j \in 1..n |-> <<stmt_convert(driver, j - 1), COMMA>>]))
                      \o <<RP>>

C10_Witness ==
    /\ Called("remove_batch_by_id") /\ pc = "await" /\ ~logic_plugin.some
    /\ call.ids = <<"1", "2">>
    /\ Len(issued) = 1
    /\ issued[1].args = <<Str("1"), Str("2")>>

\* ------------------------------------------------------------------ C11
\* C11: to_ids returns exactly the identifiers that are present, in input
\* order, and skips every element without one: the result is shorter than
\* the input by the number of elements without an identifier; no error is
\* raised and no statement is issued.
Present(items) == SelectSeq(items, LAMBDA it : it.id.some)
Absent(items) == {j \in 1..Len(items) : ~items[j].id.some}

C11_ToIdsKeepsPresentInOrder ==
    Called("to_ids")
    => /\ pc = "done"
       /\ result.ok
       /\ issued = <<>>
       /\ Len(vec) = Len(call.items) - Cardinality(Absent(call.items))
       /\ vec = [j \in 1..Len(Present(call.items)) |-> Present(call.items)[j].id.v]

C11_Witness ==
    /\ Called("to_ids") /\ pc = "done"
    /\ Len(call.items) = 3
    /\ ~call.items[2].id.some
    /\ vec = <<"2", "1">>

\* ------------------------------------------------------------------ C12
RECURSIVE SumRows(_)
SumRows(as) == IF as = <<>> THEN 0 ELSE Head(as).rows + SumRows(Tail(as))

\* what holds at every moment of a call of update_batch_by_id
C12_State ==
    Called("update_batch_by_id")
    => /\ Len(issued) <= Len(call.entities)
       /\ \A j \in 1..Len(issued) :
            /\ issued[j].via = "exec_prepare"
            /\ Head(issued[j].sql) = W("UPDATE")
            /\ Count(issued[j].sql, W("UPDATE")) = 1
            /\ SetColumns(issued[j].sql) = Keys(Kept(call.entities[j].map))
            /\ issued[j] = Statement(update_by_id(driver, call.entities[j]))
       /\ Len(issued) - Len(answers) \in {0, 1}
       /\ Len(issued) - Len(answers) = 1 <=> pc = "await"
       /\ \A j \in 1..(Len(issued) - 1) : answers[j].ok
       /\ (pc = "done" /\ result.ok)
             => /\ Len(issued) = Len(call.entities)
                /\ Len(answers) = Len(call.entities)
                /\ \A j \in 1..Len(answers) : answers[j].ok
                /\ result.rows = SumRows(answers)

\* a statement is handed over alone, when all before it have been answered
C12_Step ==
    (call'.op = "update_batch_by_id" /\ Len(issued') > Len(issued))
    => /\ Len(issued') = Len(issued) + 1
       /\ Len(answers') = Len(issued)
       /\ \A j \in 1..Len(issued) : issued'[j] = issued[j]

\* C12: update_batch_by_id applies update_by_id to the entities one at a
\* time in input order: one UPDATE statement per entity, the statement of
\* entity j handed over only when the collaborator has answered (with
\* success) the statements of all entities before it; when all succeed the
\* call returns the sum of the affected-row counts the collaborator gave.
C12_SequentialUpdates == [](C12_State) /\ [][C12_Step]_vars

C12_Witness ==
    /\ Called("update_batch_by_id") /\ pc = "done"
    /\ Len(call.entities) = 2
    /\ call.entities[1] # call.entities[2]
    /\ Len(issued) = 2
    /\ answers = <<Ok(1), Ok(1)>>
    /\ result = Ok(2)

\* ------------------------------------------------------------------ C13
\* a spaces, then b times "AND ", then c times "OR "
Connectives(a, b, c) ==
    [i \in 1..(a + 2 * b + 2 * c) |->
        IF i <= a THEN SP
        ELSE IF i <= a + 2 * b THEN (IF (i - a) % 2 = 1 THEN W("AND") ELSE SP)
        ELSE (IF (i - a - 2 * b) % 2 = 1 THEN W("OR") ELSE SP)]

Drop(s, n) == SubSeq(s, n + 1, Len(s))

\* r is what is left of the fragment when its leading spaces, then its
\* leading "AND ", then its leading "OR " are taken away, all of each
IsRemainder(frag, r) ==
    \E a, b, c \in 0..Len(frag) :
        /\ a + 2 * b + 2 * c <= Len(frag)
        /\ frag = Connectives(a, b, c) \o r
        /\ ~StartsWith(Drop(frag, a), <<SP>>)
        /\ ~StartsWith(Drop(frag, a + 2 * b), <<W("AND"), SP>>)
        /\ ~StartsWith(r, <<W("OR"), SP>>)

\* the fragment without one leading connective, spaces not counted
WithoutLeadingConnective(frag) ==
    IF Words(frag) # <<>> /\ Head(Words(frag)) \in {W("AND"), W("OR")}
    THEN Tail(Words(frag)) ELSE Words(frag)

\* C13 as stated: the statement of remove_by_wrapper ends with WHERE
\* followed by the caller's fragment, less a leading AND or OR, in
\* parentheses; the arguments are the predicate's.
C13_WhereParenthesised ==
    (Called("remove_by_wrapper") /\ Len(issued) = 1)
    => /\ Words(After(issued[1].sql, W("WHERE"))) =
            <<LP>> \o WithoutLeadingConnective(call.w.sql) \o <<RP>>
       /\ issued[1].args = call.w.args

\* C13 as amended: remove_by_wrapper takes the leading spaces, then every
\* leading "AND ", then every leading "OR " from the caller's fragment (the
\* one connective of a fragment that has one) and puts the remainder,
\* without parentheses, between " WHERE " and a space at the end of the
\* statement; a fragment without leading space or connective is used
\* unchanged, and the predicate's arguments are passed through unchanged.
C13_WhereWrapsRemainder ==
    (Called("remove_by_wrapper") /\ (logic_plugin.some => driver # Unlinked))
    => /\ Len(issued) = 1
       /\ Count(issued[1].sql, W("WHERE")) = 1
       /\ LET sql == issued[1].sql
              tail == After(sql, W("WHERE"))
              r == SubSeq(tail, 2, Len(tail) - 1)
          IN  /\ sql[Pos(sql, W("WHERE")) - 1] = SP
              /\ Len(tail) >= 2
              /\ Head(tail) = SP /\ tail[Len(tail)] = SP
              /\ IsRemainder(call.w.sql, r)
              /\ (~StartsWith(call.w.sql, <<SP>>)
                    /\ ~StartsWith(call.w.sql, <<W("AND"), SP>>)
                    /\ ~StartsWith(call.w.sql, <<W("OR"), SP>>))
                 => r = call.w.sql
              /\ (\E x \in {W("AND"), W("OR")} :
                     /\ StartsWith(TrimStart(call.w.sql), <<x, SP>>)
                     /\ Count(call.w.sql, W("AND")) + Count(call.w.sql, W("OR")) = 1)
                 => r = Drop(TrimStart(call.w.sql), 2)
       /\ issued[1].args = call.w.args

C13_Witness ==
    /\ Called("remove_by_wrapper") /\ pc = "await"
    /\ StartsWith(call.w.sql, <<SP, W("AND"), SP>>)
    /\ Len(issued) = 1
    /\ After(issued[1].sql, W("WHERE")) =
         <<SP, W("id"), SP, W("="), SP, stmt_convert(driver, 0), SP>>
    /\ issued[1].args = <<Str("1")>>

====
